---- MODULE Spec2Model ----
(***************************************************************************)
(* Batch Management view (src/unnamed/part_000): the BatchManagement page, *)
(* its BatchDialog form and StudentListDialog, and the REST backend the    *)
(* page talks to.  Every event handler, and every continuation after an    *)
(* `await fetch(...)`, is one action.  React effects that a handler's      *)
(* state change triggers run inside the same action.                       *)
(*                                                                         *)
(* Text the code inspects character by character (names, search terms,     *)
(* the new-student inputs) is a sequence of one-character strings; ids,    *)
(* dates and times are opaque strings.                                     *)
(***************************************************************************)
EXTENDS Integers, Sequences, FiniteSets, TLC

VARIABLES
    \* BatchManagement state (part_000:497-505)
    batches, faculties, skills, searchTerm, isBatchDialogOpen,
    isStudentListOpen, selectedBatch, studentsOfSelectedBatch, allStudents,
    \* BatchDialog state (part_000:100-118, 230)
    formData, dialogSkills, isLoading, newStudentName,
    newStudentAdmissionNumber, newStudentPhoneNumber, studentSearch,
    \* the backend's batch collection and the requests in flight
    server, requests,
    \* the batch id window.confirm() is asking about, while handleDeleteBatch
    \* is blocked in it
    confirming,
    \* the error toasts raised so far, by title
    toasts,
    \* what is left of the bounds on user actions and on network faults
    budget,
    \* history: the button that opened the batch dialog now open
    openedBy,
    \* import.meta.env.VITE_API_BASE_URL, and the module constant API_BASE_URL
    \* computed from it when the module is loaded (api.ts:2, 26)
    rawBaseUrl, API_BASE_URL

page == <<batches, faculties, skills, searchTerm, isBatchDialogOpen,
          isStudentListOpen, selectedBatch, studentsOfSelectedBatch, allStudents>>
config == <<rawBaseUrl, API_BASE_URL>>
quiet == <<confirming, toasts, openedBy, config>>
newStudent == <<newStudentName, newStudentAdmissionNumber, newStudentPhoneNumber>>
dialog == <<formData, dialogSkills, isLoading, newStudent, studentSearch>>
vars == <<page, dialog, server, requests, quiet, budget>>

----------------------------------------------------------------------------
\* Bounds of the model.  The handlers of the page are too many to run all
\* together: each specification below runs the handlers that read or write
\* the state its properties are about and leaves the others un-run, as the program
\* allows (no click is forced, a response may never arrive).
MaxClicks == 2          \* clicks on the page in Spec
MaxMutateClicks == 1    \* clicks on the page in SpecMutate
MaxCreateClicks == 2    \* clicks on the page in SpecCreate
MaxSkillClicks == 3     \* clicks on the page in SpecSkill
MaxStudentClicks == 3   \* clicks (Add Batch, the student Add button) in SpecStudent
MaxFormClicks == 2      \* clicks on the page in SpecForm
MaxFormEdits == 1       \* edits of the form in SpecForm
MaxLoadClicks == 2      \* clicks on the page in SpecLoad
MaxFaults == 1          \* requests that fail (transport or non-success status)
MaxCreated == 1         \* batches the backend accepts to create
MaxTerm == 2            \* length of the search terms in SpecFilter
MaxParts == 2           \* pieces a configured base URL is put together from, in SpecUrl
MaxList == 2            \* length of the batch list in SpecFilter

----------------------------------------------------------------------------
\* JavaScript values.
undefined == [undefined |-> TRUE]
Arr(s) == [t |-> "array", v |-> s]
\* a JSON body that is an object, as an error response carries
ErrBody == [t |-> "object"]
\* a body response.json() rejects
NotJson == [t |-> "notjson"]
IsArray(j) == j.t = "array"

\* String.prototype.toLowerCase over the model's alphabet
ToLowerChar(c) == CASE c = "A" -> "a" [] c = "B" -> "b" [] OTHER -> c
toLowerCase(s) == [i \in 1..Len(s) |-> ToLowerChar(s[i])]
\* String.prototype.includes: a scan over the start positions
includes(s, t) ==
    \E i \in 0..(Len(s) - Len(t)) : \A j \in 1..Len(t) : s[i + j] = t[j]
\* String.prototype.trim
RECURSIVE trimStart(_)
trimStart(s) == IF s # <<>> /\ Head(s) = " " THEN trimStart(Tail(s)) ELSE s
RECURSIVE trimEnd(_)
trimEnd(s) ==
    IF s # <<>> /\ s[Len(s)] = " " THEN trimEnd(SubSeq(s, 1, Len(s) - 1)) ELSE s
trim(s) == trimEnd(trimStart(s))
\* Array.prototype.filter
filter(s, P(_)) == SelectSeq(s, P)
Range(s) == {s[i] : i \in 1..Len(s)}
RemoveAt(s, i) == SubSeq(s, 1, i - 1) \o SubSeq(s, i + 1, Len(s))

\* new Date(d).toISOString().split('T')[0] for the dates the backend holds
ToISODate(d) ==
    CASE d = "2024-01-10T00:00:00.000Z" -> "2024-01-10"
      [] d = "2024-06-10T00:00:00.000Z" -> "2024-06-10"
      [] OTHER -> d

----------------------------------------------------------------------------
\* client/lib/api.ts: the base URL of the API.
HTTP == <<"h", "t", "t", "p", ":", "/", "/">>
HTTPS == <<"h", "t", "t", "p", "s", ":", "/", "/">>
LOCALHOST == <<"l", "o", "c", "a", "l", "h", "o", "s", "t">>
ApiSuffix == <<"/", "a", "p", "i">>
\* "http://localhost:3001" (api.ts:6)
DefaultBaseUrl == HTTP \o LOCALHOST \o <<":", "3", "0", "0", "1">>
\* String.prototype.startsWith
startsWith(s, t) == Len(s) >= Len(t) /\ SubSeq(s, 1, Len(t)) = t
\* the characters of /^192\.168\./ (api.ts:18): every one a literal
LanPattern == <<"1", "9", "2", ".", "1", "6", "8", ".">>
\* the pattern with its dots unescaped: a dot matches any character
MatchesLan_DotIsAny(s) ==
    /\ Len(s) >= Len(LanPattern)
    /\ \A k \in 1..Len(LanPattern) : LanPattern[k] = "." \/ s[k] = LanPattern[k]
\* rawBaseUrl.match(/^192\.168\./), anchored at the start
MatchesLan(s) ==
    /\ Len(s) >= Len(LanPattern)
    /\ \A k \in 1..Len(LanPattern) : s[k] = LanPattern[k]
\* a string value, next to undefined
Str(s) == [str |-> s]
\* api.ts:1-24
getApiBaseUrl(raw) ==
    IF raw = undefined \/ raw = Str(<<>>) THEN Str(DefaultBaseUrl)
    ELSE IF startsWith(raw.str, HTTP) \/ startsWith(raw.str, HTTPS) THEN raw
    ELSE IF includes(raw.str, LOCALHOST) \/ MatchesLan(raw.str)
         THEN Str(HTTP \o raw.str \o ApiSuffix)
    ELSE Str(HTTPS \o raw.str \o ApiSuffix)

----------------------------------------------------------------------------
\* Reference data the backend serves.
SkillData == <<"S1", "S2", "S3">>
FacultyData ==
    << [id |-> "F1", isActive |-> TRUE,  skills |-> <<"S1">>],
       [id |-> "F2", isActive |-> TRUE,  skills |-> <<"S2", "S3">>],
       [id |-> "F3", isActive |-> FALSE, skills |-> <<"S3">>] >>
StudentData ==
    << [id |-> "ST1", name |-> <<"a">>, admission_number |-> <<"1">>],
       [id |-> "ST2", name |-> <<"b">>, admission_number |-> <<"2">>] >>

\* The batches the backend holds at the start.
BatchB1 ==
    [id |-> "B1", name |-> <<"A", "b">>, description |-> <<"d">>,
     start_date |-> "2024-01-10T00:00:00.000Z", end_date |-> "2024-06-10T00:00:00.000Z",
     start_time |-> "09:00", end_time |-> "10:00",
     faculty |-> "F1", skill |-> "S1", max_students |-> 20, status |-> "active",
     students |-> <<"ST1">>, days_of_week |-> <<"Monday">>]
BatchB2 ==
    [id |-> "B2", name |-> <<"b">>, description |-> <<>>,
     start_date |-> "2024-01-10", end_date |-> "2024-06-10",
     start_time |-> "09:00", end_time |-> "10:00",
     faculty |-> "", skill |-> "", max_students |-> 0, status |-> "Upcoming",
     students |-> <<>>, days_of_week |-> <<>>]
ServerInit == <<BatchB1, BatchB2>>

----------------------------------------------------------------------------
\* BatchDialog: the form.

\* the empty defaults (part_000:100-113 and 186-199)
DefaultFormData ==
    [name |-> <<>>, description |-> <<>>, startDate |-> "", endDate |-> "",
     startTime |-> "", endTime |-> "", facultyId |-> "", skillId |-> "",
     maxStudents |-> 30, status |-> "Upcoming", studentIds |-> <<>>,
     daysOfWeek |-> <<>>]

\* the effect on [batch, open] (part_000:169-201): the form is rebuilt from the
\* batch passed in, or from the defaults
FormFromBatch(b) ==
    IF b # undefined
    THEN [name |-> b.name,
          description |-> b.description,
          startDate |-> IF b.start_date # "" THEN ToISODate(b.start_date) ELSE "",
          endDate |-> IF b.end_date # "" THEN ToISODate(b.end_date) ELSE "",
          startTime |-> b.start_time,
          endTime |-> b.end_time,
          facultyId |-> b.faculty,
          skillId |-> b.skill,
          maxStudents |-> IF b.max_students # 0 THEN b.max_students ELSE 30,
          status |-> b.status,
          studentIds |-> b.students,
          daysOfWeek |-> b.days_of_week]
    ELSE DefaultFormData

\* availableSkills as the global skill list, whatever faculty is selected
availableSkills_Global(facs, fid, sk) == sk

\* const selectedFaculty = faculties.find(f => f.id === formData.facultyId)
selectedFaculty(facs, fid) ==
    LET hits == filter(facs, LAMBDA f : f.id = fid)
    IN  IF hits = <<>> THEN undefined ELSE Head(hits)
\* const availableSkills = selectedFaculty ? selectedFaculty.skills : skills
availableSkills(facs, fid, sk) ==
    IF selectedFaculty(facs, fid) # undefined
    THEN selectedFaculty(facs, fid).skills ELSE sk

\* the students the checkbox list shows (part_000:232-235)
filteredStudents(students, term) ==
    filter(students, LAMBDA s :
        \/ includes(toLowerCase(s.name), toLowerCase(term))
        \/ includes(toLowerCase(s.admission_number), toLowerCase(term)))

\* handleStudentToggle / handleDayToggle (part_000:209-225)
toggle(list, x) ==
    IF x \in Range(list) THEN filter(list, LAMBDA y : y # x) ELSE Append(list, x)

\* parseInt(e.target.value) || 30 (part_000:264) on the inputs of the model
ParseMaxStudents(text) ==
    CASE text = "5" -> 5 [] text = "12" -> 12 [] OTHER -> 30

\* the browser's validation of the form's `required` inputs (part_000:254-318)
RequiredFilled(f) ==
    /\ f.name # <<>>
    /\ f.startDate # "" /\ f.endDate # ""
    /\ f.startTime # "" /\ f.endTime # ""
    /\ f.maxStudents >= 1

\* the guard of handleAddStudent without the trim()
CanAddStudent_NoTrim(name, admission) == name # <<>> /\ admission # <<>>

\* the guard of handleAddStudent (part_000:121)
CanAddStudent(name, admission) == trim(name) # <<>> /\ trim(admission) # <<>>

----------------------------------------------------------------------------
\* BatchManagement: derived values.

\* filteredBatches with the term compared as typed
filteredBatches_TermAsTyped(list, term) ==
    filter(list, LAMBDA b : includes(toLowerCase(b.name), term))

\* part_000:634-636
filteredBatches(list, term) ==
    filter(list, LAMBDA b : includes(toLowerCase(b.name), toLowerCase(term)))

\* the endpoint chosen without regard to the selected batch
SaveMethod_AlwaysPut(sel) == "PUT"
SavePath_NoId(sel) == <<"api", "batches">>

\* handleSaveBatch's choice of endpoint (part_000:588-591)
SaveMethod(sel) == IF sel # undefined THEN "PUT" ELSE "POST"
SavePath(sel) ==
    IF sel # undefined THEN <<"api", "batches", sel.id>> ELSE <<"api", "batches">>

\* a fetch() call that has not been answered yet
Request(method, path, body, cont) ==
    [method |-> method, path |-> path, body |-> body, cont |-> cont,
     stage |-> "sent", resp |-> undefined]
Get(path, cont) == Request("GET", path, undefined, cont)
FetchBatches == Get(<<"api", "batches">>, "fetchBatches")
FetchFaculties == Get(<<"api", "faculty">>, "fetchFaculties")
FetchSkills == Get(<<"api", "skills">>, "fetchSkills")
FetchAllStudents == Get(<<"api", "students">>, "fetchAllStudents")
FetchSkillsData == Get(<<"api", "skills">>, "fetchSkillsData")

NotConfirming == ""
\* the values of openedBy
NotOpen == [via |-> "none"]
ByAdd == [via |-> "add"]
ByEdit(batch) == [via |-> "edit", batch |-> batch]
\* The page and its BatchDialog render only while batches and faculties are
\* arrays: batches.filter (634) and faculties.find (227) throw otherwise, and
\* no error boundary catches it.
\* Nothing else runs while window.confirm() blocks the page's only thread.
Rendered == IsArray(batches) /\ IsArray(faculties) /\ confirming = NotConfirming
\* {selectedBatch && <StudentListDialog open={isStudentListOpen} .../>}
StudentListShown == selectedBatch # undefined /\ isStudentListOpen
\* The dialogs are modal: the page behind an open dialog takes no clicks.
PageInteractive == Rendered /\ ~isBatchDialogOpen /\ ~StudentListShown
DialogInteractive == Rendered /\ isBatchDialogOpen
\* the rows of the table (part_000:690)
Rows == IF Rendered THEN Range(filteredBatches(batches.v, searchTerm)) ELSE {}

\* toast.error(title, ...)
ToastError(title) == [toasts EXCEPT ![title] = @ + 1]
\* the bounds on user actions and faults: what is left of each; a bound that
\* starts at Unlimited is never spent
Unlimited == 0 - 1
Left(what) == budget[what] # 0
Spend(what) == [budget EXCEPT ![what] = IF @ > 0 THEN @ - 1 ELSE @]

----------------------------------------------------------------------------
\* The initial values of the components' state (part_000:100-118, 230,
\* 497-505), with nothing asked of the user and no toast raised.
InitialState ==
    /\ batches = Arr(<<>>)
    /\ faculties = Arr(<<>>)
    /\ skills = <<>>
    /\ searchTerm = <<>>
    /\ isBatchDialogOpen = FALSE
    /\ isStudentListOpen = FALSE
    /\ selectedBatch = undefined
    /\ studentsOfSelectedBatch = Arr(<<>>)
    /\ allStudents = <<>>
    /\ formData = DefaultFormData
    /\ dialogSkills = <<>>
    /\ isLoading = FALSE
    /\ newStudentName = <<>>
    /\ newStudentAdmissionNumber = <<>>
    /\ newStudentPhoneNumber = <<>>
    /\ studentSearch = <<>>
    /\ server = ServerInit
    /\ confirming = NotConfirming
    /\ toasts = [save |-> 0, students |-> 0]
    /\ openedBy = NotOpen

\* The state after construction: the module constant is computed, with
\* nothing configured, and the mount effect (part_000:556-561) has issued its
\* four fetches.  The paths of the requests are relative to API_BASE_URL.
Mounted ==
    /\ InitialState
    /\ rawBaseUrl = undefined
    /\ API_BASE_URL = getApiBaseUrl(rawBaseUrl)
    /\ requests = <<FetchBatches, FetchFaculties, FetchSkills, FetchAllStudents>>

Budget(clicks, edits, faults) ==
    [clicks |-> clicks, edits |-> edits, faults |-> faults, creates |-> MaxCreated]

----------------------------------------------------------------------------
\* The effects of BatchDialog, run after a handler changed `open` or `batch`.

\* useEffect(..., [batch, open]) (part_000:169-201)
FormAfter(open2, batch2) ==
    IF open2 # isBatchDialogOpen \/ batch2 # selectedBatch
    THEN FormFromBatch(batch2) ELSE formData
\* useEffect(..., [open]) (part_000:149-167): fetchSkillsData when the dialog opens
Opens(open2) == open2 /\ ~isBatchDialogOpen
SkillsFetchAfter(open2) == IF Opens(open2) THEN <<FetchSkillsData>> ELSE <<>>
LoadingAfter(open2) == IF Opens(open2) THEN TRUE ELSE isLoading

----------------------------------------------------------------------------
\* BatchManagement: the user's actions on the page.

\* part_000:667
SetSearchTerm(text) ==
    /\ PageInteractive /\ Left("clicks")
    /\ searchTerm' = text
    /\ budget' = Spend("clicks")
    /\ UNCHANGED <<batches, faculties, skills, isBatchDialogOpen, isStudentListOpen,
                   selectedBatch, studentsOfSelectedBatch, allStudents, dialog,
                   server, requests, quiet>>

\* part_000:563-566
handleAddBatch ==
    /\ PageInteractive /\ Left("clicks")
    /\ selectedBatch' = undefined
    /\ isBatchDialogOpen' = TRUE
    /\ formData' = FormAfter(TRUE, undefined)
    /\ isLoading' = LoadingAfter(TRUE)
    /\ requests' = requests \o SkillsFetchAfter(TRUE)
    /\ budget' = Spend("clicks")
    /\ openedBy' = ByAdd
    /\ UNCHANGED <<batches, faculties, skills, searchTerm, isStudentListOpen,
                   studentsOfSelectedBatch, allStudents, dialogSkills, newStudent,
                   studentSearch, server, config, confirming, toasts>>

\* part_000:568-571, from the Edit button of a row of the table (703)
handleEditBatch(batch) ==
    /\ PageInteractive /\ Left("clicks")
    /\ batch \in Rows
    /\ selectedBatch' = batch
    /\ isBatchDialogOpen' = TRUE
    /\ formData' = FormAfter(TRUE, batch)
    /\ isLoading' = LoadingAfter(TRUE)
    /\ requests' = requests \o SkillsFetchAfter(TRUE)
    /\ budget' = Spend("clicks")
    /\ openedBy' = ByEdit(batch)
    /\ UNCHANGED <<batches, faculties, skills, searchTerm, isStudentListOpen,
                   studentsOfSelectedBatch, allStudents, dialogSkills, newStudent,
                   studentSearch, server, config, confirming, toasts>>

\* part_000:573-576, up to the await
handleViewStudents(batch) ==
    /\ PageInteractive /\ Left("clicks")
    /\ batch \in Rows
    /\ selectedBatch' = batch
    /\ formData' = FormAfter(isBatchDialogOpen, batch)
    /\ requests' = Append(requests,
                          Get(<<"api", "batches", batch.id, "students">>,
                              "handleViewStudents"))
    /\ budget' = Spend("clicks")
    /\ UNCHANGED <<batches, faculties, skills, searchTerm, isBatchDialogOpen,
                   isStudentListOpen, studentsOfSelectedBatch, allStudents,
                   dialogSkills, isLoading, newStudent, studentSearch, server, quiet>>

\* handleDeleteBatch going to its fetch without asking
handleDeleteBatch_NoConfirm(id) ==
    /\ PageInteractive /\ Left("clicks")
    /\ id \in {b.id : b \in Rows}
    /\ requests' = Append(requests,
                          Request("DELETE", <<"api", "batches", id>>,
                                  undefined, "handleDeleteBatch"))
    /\ budget' = Spend("clicks")
    /\ UNCHANGED <<page, dialog, server, quiet>>

\* handleDeleteBatch (part_000:617-618), from the Delete button of a row (706):
\* window.confirm() opens and blocks the handler
handleDeleteBatch(id) ==
    /\ PageInteractive /\ Left("clicks")
    /\ id \in {b.id : b \in Rows}
    /\ confirming' = id
    /\ budget' = Spend("clicks")
    /\ UNCHANGED <<page, dialog, server, config, requests, toasts, openedBy>>

\* confirm() returns true: handleDeleteBatch goes on to its fetch (619-622)
ConfirmAccepted ==
    /\ confirming # NotConfirming
    /\ requests' = Append(requests,
                          Request("DELETE", <<"api", "batches", confirming>>,
                                  undefined, "handleDeleteBatch"))
    /\ confirming' = NotConfirming
    /\ UNCHANGED <<page, dialog, server, config, toasts, budget, openedBy>>

\* confirm() returns false: handleDeleteBatch returns
ConfirmDeclined ==
    /\ confirming # NotConfirming
    /\ confirming' = NotConfirming
    /\ UNCHANGED <<page, dialog, server, config, requests, toasts, budget, openedBy>>

\* StudentListDialog's onOpenChange(false) (part_000:732)
CloseStudentList ==
    /\ Rendered /\ StudentListShown
    /\ isStudentListOpen' = FALSE
    /\ UNCHANGED <<batches, faculties, skills, searchTerm, isBatchDialogOpen,
                   selectedBatch, studentsOfSelectedBatch, allStudents, dialog,
                   server, requests, budget, quiet>>

----------------------------------------------------------------------------
\* BatchDialog: the user's actions in the form.

\* what the user types or picks
NameInputs == {<<"c">>}
DescriptionInputs == {<<"e">>}
DateInputs == {"2024-02-01"}
TimeInputs == {"11:00"}
MaxStudentsInputs == {"", "5"}
DayInputs == {"Monday", "Wednesday"}
SearchInputs == {<<>>, <<"a">>}
StudentTextInputs == {<<>>, <<" ">>, <<"n">>}
BATCH_STATUSES == <<"Upcoming", "active", "completed">>

\* setFormData({ ...formData, <field>: value }) in an open dialog
SetField(field, value) ==
    /\ DialogInteractive /\ Left("edits")
    /\ value # formData[field]
    /\ formData' = [formData EXCEPT ![field] = value]
    /\ budget' = Spend("edits")
    /\ UNCHANGED <<page, dialogSkills, isLoading, newStudent, studentSearch,
                   server, requests, quiet>>

SetName(text) == SetField("name", text)                      \* 253
SetMaxStudents(text) ==                                                 \* 264
    SetField("maxStudents", ParseMaxStudents(text))
SetDescription(text) == SetField("description", text) \* 274
SetStartDate(d) == SetField("startDate", d)             \* 285
SetEndDate(d) == SetField("endDate", d)                   \* 295
SetStartTime(t) == SetField("startTime", t)             \* 307
SetEndTime(t) == SetField("endTime", t)                   \* 317
SetStatus(st) == SetField("status", st)                    \* 362

\* the faculty Select (part_000:325-338): its items are the active faculties,
\* it is disabled while loading or without faculties, and it reports a value
\* only when the value changes
SetFaculty(fid) ==
    /\ DialogInteractive /\ Left("edits")
    /\ ~isLoading /\ Len(faculties.v) # 0
    /\ fid \in {f.id : f \in Range(filter(faculties.v, LAMBDA f : f.isActive))}
    /\ fid # formData.facultyId
    /\ formData' = [formData EXCEPT !.facultyId = fid, !.skillId = ""]
    /\ budget' = Spend("edits")
    /\ UNCHANGED <<page, dialogSkills, isLoading, newStudent, studentSearch,
                   server, requests, quiet>>

\* the skill Select (part_000:342-355)
SetSkill(sid) ==
    /\ DialogInteractive /\ Left("edits")
    /\ ~isLoading /\ formData.facultyId # ""
    /\ availableSkills(faculties.v, formData.facultyId, dialogSkills) # <<>>
    /\ sid \in Range(availableSkills(faculties.v, formData.facultyId, dialogSkills))
    /\ formData' = [formData EXCEPT !.skillId = sid]
    /\ budget' = Spend("edits")
    /\ UNCHANGED <<page, dialogSkills, isLoading, newStudent, studentSearch,
                   server, requests, quiet>>

\* part_000:218-225
handleDayToggle(day) ==
    SetField("daysOfWeek", toggle(formData.daysOfWeek, day))

\* part_000:209-216, from a checkbox of the filtered student list (402-408)
handleStudentToggle(studentId) ==
    /\ studentId \in {st.id : st \in Range(filteredStudents(allStudents, studentSearch))}
    /\ SetField("studentIds", toggle(formData.studentIds, studentId))

\* the inputs held outside formData (part_000:398, 418, 423, 428)
SetDialogInput(search, name, admission, phone) ==
    /\ DialogInteractive /\ Left("edits")
    /\ studentSearch' = search
    /\ newStudentName' = name
    /\ newStudentAdmissionNumber' = admission
    /\ newStudentPhoneNumber' = phone
    /\ budget' = Spend("edits")
    /\ UNCHANGED <<page, formData, dialogSkills, isLoading, server, requests, quiet>>

SetStudentSearch(text) ==
    SetDialogInput(text, newStudentName, newStudentAdmissionNumber,
                   newStudentPhoneNumber)
SetNewStudentName(text) ==
    SetDialogInput(studentSearch, text, newStudentAdmissionNumber,
                   newStudentPhoneNumber)
SetNewStudentAdmissionNumber(text) ==
    SetDialogInput(studentSearch, newStudentName, text,
                   newStudentPhoneNumber)
SetNewStudentPhoneNumber(text) ==
    SetDialogInput(studentSearch, newStudentName, newStudentAdmissionNumber,
                   text)

\* part_000:120-133, up to the await.  The Add button is disabled while the
\* name or the admission number is empty (430).
handleAddStudent ==
    /\ DialogInteractive /\ Left("clicks")
    /\ newStudentName # <<>> /\ newStudentAdmissionNumber # <<>>
    /\ requests' =
         IF CanAddStudent(newStudentName, newStudentAdmissionNumber)
         THEN Append(requests,
                     Request("POST", <<"api", "students">>,
                             [name |-> newStudentName,
                              admission_number |-> newStudentAdmissionNumber,
                              phone_number |-> newStudentPhoneNumber],
                             "handleAddStudent"))
         ELSE requests
    /\ budget' = Spend("clicks")
    /\ UNCHANGED <<page, dialog, server, quiet>>

\* const payload = { ...data } (part_000:586)
SavePayload(data) == data

\* handleSubmit (part_000:203-207): onSave(formData) runs handleSaveBatch up to
\* its await (585-597), then onOpenChange(false) closes the dialog.  The submit
\* button is disabled while loading (439) and the browser holds the submit back
\* until the required inputs are filled.
handleSubmit ==
    /\ DialogInteractive /\ ~isLoading /\ RequiredFilled(formData)
    /\ requests' = Append(requests,
                          Request(SaveMethod(selectedBatch), SavePath(selectedBatch),
                                  SavePayload(formData), "handleSaveBatch"))
    /\ isBatchDialogOpen' = FALSE
    /\ formData' = FormAfter(FALSE, selectedBatch)
    /\ openedBy' = NotOpen
    /\ UNCHANGED <<batches, faculties, skills, searchTerm, isStudentListOpen,
                   selectedBatch, studentsOfSelectedBatch, allStudents,
                   dialogSkills, isLoading, newStudent, studentSearch, server, config,
                   budget, confirming, toasts>>

\* the Cancel button, Escape or a click outside: onOpenChange(false) (436, 238)
CancelBatchDialog ==
    /\ DialogInteractive
    /\ isBatchDialogOpen' = FALSE
    /\ formData' = FormAfter(FALSE, selectedBatch)
    /\ openedBy' = NotOpen
    /\ UNCHANGED <<batches, faculties, skills, searchTerm, isStudentListOpen,
                   selectedBatch, studentsOfSelectedBatch, allStudents,
                   dialogSkills, isLoading, newStudent, studentSearch, server, config,
                   requests, budget, confirming, toasts>>

----------------------------------------------------------------------------
\* The backend and the network.

IsBatchRequest(r) == r.path[2] = "batches"
HasBatch(id) == \E b \in Range(server) : b.id = id
NewIds == <<"B3", "B4", "B5">>

\* the batch the backend stores for a form payload
BatchFromPayload(id, p) ==
    [id |-> id, name |-> p.name, description |-> p.description,
     start_date |-> p.startDate, end_date |-> p.endDate,
     start_time |-> p.startTime, end_time |-> p.endTime,
     faculty |-> p.facultyId, skill |-> p.skillId,
     max_students |-> p.maxStudents, status |-> p.status,
     students |-> p.studentIds, days_of_week |-> p.daysOfWeek]

Ok(json) == [ok |-> TRUE, json |-> json]
Rejected(json) == [ok |-> FALSE, json |-> json]
Answered(r, resp) == [r EXCEPT !.stage = "answered", !.resp = resp]

\* the roster of a batch: GET /api/batches/{id}/students
Roster(id) ==
    LET b == CHOOSE x \in Range(server) : x.id = id
    IN  filter(StudentData, LAMBDA st : st.id \in Range(b.students))

\* The backend handles a request on the batch collection: the moment it reads
\* or changes the collection.
Serve(i) ==
    LET r == requests[i]
        id == r.path[3]
        used == MaxCreated - budget.creates
    IN
    /\ r.stage = "sent" /\ IsBatchRequest(r)
    /\ \/ /\ r.method = "GET" /\ Len(r.path) = 2
          /\ requests' = [requests EXCEPT ![i] = Answered(r, Ok(Arr(server)))]
          /\ UNCHANGED <<server, budget>>
       \/ /\ r.method = "GET" /\ Len(r.path) = 4
          /\ requests' = [requests EXCEPT ![i] =
                 Answered(r, IF HasBatch(id) THEN Ok(Arr(Roster(id)))
                             ELSE Rejected(ErrBody))]
          /\ UNCHANGED <<server, budget>>
       \/ /\ r.method = "POST"
          /\ budget.creates > 0 /\ used < Len(NewIds)
          /\ server' = Append(server, BatchFromPayload(NewIds[used + 1], r.body))
          /\ requests' = [requests EXCEPT ![i] = Answered(r, Ok(ErrBody))]
          /\ budget' = Spend("creates")
       \/ /\ r.method = "PUT"
          /\ server' = [k \in 1..Len(server) |->
                            IF server[k].id = id THEN BatchFromPayload(id, r.body)
                            ELSE server[k]]
          /\ requests' = [requests EXCEPT ![i] =
                 Answered(r, IF HasBatch(id) THEN Ok(ErrBody) ELSE Rejected(ErrBody))]
          /\ UNCHANGED budget
       \/ /\ r.method = "DELETE"
          /\ server' = filter(server, LAMBDA b : b.id # id)
          /\ requests' = [requests EXCEPT ![i] =
                 Answered(r, IF HasBatch(id) THEN Ok(ErrBody) ELSE Rejected(ErrBody))]
          /\ UNCHANGED budget
    /\ UNCHANGED <<page, dialog, quiet>>

\* The backend refuses a request on the batch collection with a non-success
\* status, its body an error object or not JSON at all.
Refuse(i) ==
    LET r == requests[i] IN
    /\ r.stage = "sent" /\ IsBatchRequest(r) /\ Left("faults")
    /\ \E body \in IF r.method = "GET" THEN {ErrBody, NotJson} ELSE {ErrBody} :
          requests' = [requests EXCEPT ![i] = Answered(r, Rejected(body))]
    /\ budget' = Spend("faults")
    /\ UNCHANGED <<page, dialog, server, quiet>>

\* The reference collections do not change, so their requests are answered at
\* the moment the response is handled.
StaticReply(r) ==
    CASE r.method = "GET" /\ r.path[2] = "faculty" -> Ok(Arr(FacultyData))
      [] r.method = "GET" /\ r.path[2] = "skills" -> Ok(Arr(SkillData))
      [] r.method = "GET" /\ r.path[2] = "students" -> Ok(Arr(StudentData))
      [] OTHER -> Ok(ErrBody)

\* How awaiting request i can end: with a response, or with fetch() rejecting
\* (a transport failure).
Outcome(failed, resp, fault) == [failed |-> failed, resp |-> resp, fault |-> fault]
Outcomes(i) ==
    LET r == requests[i]
        lost == IF Left("faults") THEN {Outcome(TRUE, undefined, TRUE)} ELSE {}
    IN  IF IsBatchRequest(r)
        THEN (IF r.stage = "answered" THEN {Outcome(FALSE, r.resp, FALSE)} ELSE {})
             \cup lost
        ELSE {Outcome(FALSE, StaticReply(r), FALSE)}
             \cup (IF Left("faults")
                   THEN {Outcome(FALSE, Rejected(ErrBody), TRUE),
                         Outcome(FALSE, Rejected(NotJson), TRUE)}
                   ELSE {})
             \cup lost
\* `await response.json()` throws
JsonThrows(o) == o.failed \/ o.resp.json = NotJson
Awaits(i, cont) == Rendered /\ requests[i].cont = cont
BudgetAfter(o) == IF o.fault THEN Spend("faults") ELSE budget

----------------------------------------------------------------------------
\* The continuations: what each handler does once its fetch() settles.

\* fetchBatches (part_000:507-515)
fetchBatchesDone(i, o) ==
    /\ Awaits(i, "fetchBatches")
    /\ batches' = IF JsonThrows(o) THEN batches ELSE o.resp.json
    /\ requests' = RemoveAt(requests, i)
    /\ budget' = BudgetAfter(o)
    /\ UNCHANGED <<faculties, skills, searchTerm, isBatchDialogOpen,
                   isStudentListOpen, selectedBatch, studentsOfSelectedBatch,
                   allStudents, dialog, server, quiet>>

\* fetchFaculties (part_000:517-525)
fetchFacultiesDone(i, o) ==
    /\ Awaits(i, "fetchFaculties")
    /\ faculties' = IF JsonThrows(o) THEN faculties ELSE o.resp.json
    /\ requests' = RemoveAt(requests, i)
    /\ budget' = BudgetAfter(o)
    /\ UNCHANGED <<batches, skills, searchTerm, isBatchDialogOpen,
                   isStudentListOpen, selectedBatch, studentsOfSelectedBatch,
                   allStudents, dialog, server, quiet>>

\* setSkills(Array.isArray(data) ? data : []), and [] when the fetch throws
\* (part_000:531-534 and 155-158)
SkillsAfter(o) ==
    IF JsonThrows(o) THEN <<>>
    ELSE IF IsArray(o.resp.json) THEN o.resp.json.v ELSE <<>>

\* fetchSkills (part_000:527-536)
fetchSkillsDone(i, o) ==
    /\ Awaits(i, "fetchSkills")
    /\ skills' = SkillsAfter(o)
    /\ requests' = RemoveAt(requests, i)
    /\ budget' = BudgetAfter(o)
    /\ UNCHANGED <<batches, faculties, searchTerm, isBatchDialogOpen,
                   isStudentListOpen, selectedBatch, studentsOfSelectedBatch,
                   allStudents, dialog, server, quiet>>

\* fetchAllStudents (part_000:538-554)
fetchAllStudentsDone(i, o) ==
    LET loaded == ~o.failed /\ o.resp.ok /\ ~JsonThrows(o) IN
    /\ Awaits(i, "fetchAllStudents")
    /\ allStudents' = IF loaded THEN o.resp.json.v ELSE allStudents
    /\ requests' = RemoveAt(requests, i)
    /\ toasts' = IF loaded THEN toasts ELSE ToastError("students")
    /\ budget' = BudgetAfter(o)
    /\ UNCHANGED <<batches, faculties, skills, searchTerm, isBatchDialogOpen,
                   isStudentListOpen, selectedBatch, studentsOfSelectedBatch,
                   dialog, server, config, confirming, openedBy>>

\* BatchDialog's fetchSkillsData (part_000:150-162)
fetchSkillsDataDone(i, o) ==
    /\ Awaits(i, "fetchSkillsData")
    /\ dialogSkills' = SkillsAfter(o)
    /\ isLoading' = FALSE
    /\ requests' = RemoveAt(requests, i)
    /\ budget' = BudgetAfter(o)
    /\ UNCHANGED <<page, formData, newStudent, studentSearch, server, quiet>>

\* handleViewStudents after its await (part_000:577-582)
handleViewStudentsDone(i, o) ==
    /\ Awaits(i, "handleViewStudents")
    /\ studentsOfSelectedBatch' =
           IF JsonThrows(o) THEN studentsOfSelectedBatch ELSE o.resp.json
    /\ isStudentListOpen' = IF JsonThrows(o) THEN isStudentListOpen ELSE TRUE
    /\ requests' = RemoveAt(requests, i)
    /\ budget' = BudgetAfter(o)
    /\ UNCHANGED <<batches, faculties, skills, searchTerm, isBatchDialogOpen,
                   selectedBatch, allStudents, dialog, server, quiet>>

\* a response of any status taken for a success
Succeeded_AnyStatus(o) == ~o.failed

\* if (response.ok) of handleSaveBatch and handleDeleteBatch (599, 623) and of
\* handleAddStudent (135)
Succeeded(o) == ~o.failed /\ o.resp.ok

\* handleSaveBatch after its await (part_000:599-614)
handleSaveBatchDone(i, o) ==
    /\ Awaits(i, "handleSaveBatch")
    /\ IF Succeeded(o)
       THEN /\ requests' = Append(RemoveAt(requests, i), FetchBatches)
            /\ isBatchDialogOpen' = FALSE
            /\ selectedBatch' = undefined
            /\ formData' = FormAfter(FALSE, undefined)
            /\ openedBy' = NotOpen
            /\ UNCHANGED toasts
       ELSE /\ requests' = RemoveAt(requests, i)
            /\ toasts' = ToastError("save")
            /\ UNCHANGED <<isBatchDialogOpen, selectedBatch, formData, openedBy>>
    /\ budget' = BudgetAfter(o)
    /\ UNCHANGED <<batches, faculties, skills, searchTerm, isStudentListOpen,
                   studentsOfSelectedBatch, allStudents, dialogSkills, isLoading,
                   newStudent, studentSearch, server, config, confirming>>

\* handleDeleteBatch after its await (part_000:623-630)
handleDeleteBatchDone(i, o) ==
    /\ Awaits(i, "handleDeleteBatch")
    /\ requests' = IF Succeeded(o) THEN Append(RemoveAt(requests, i), FetchBatches)
                   ELSE RemoveAt(requests, i)
    /\ budget' = BudgetAfter(o)
    /\ UNCHANGED <<page, dialog, server, quiet>>

\* handleAddStudent after its await (part_000:135-145); onStudentAdded is
\* fetchAllStudents (726)
handleAddStudentDone(i, o) ==
    /\ Awaits(i, "handleAddStudent")
    /\ IF Succeeded(o)
       THEN /\ requests' = Append(RemoveAt(requests, i), FetchAllStudents)
            /\ newStudentName' = <<>>
            /\ newStudentAdmissionNumber' = <<>>
            /\ newStudentPhoneNumber' = <<>>
       ELSE /\ requests' = RemoveAt(requests, i)
            /\ UNCHANGED newStudent
    /\ budget' = BudgetAfter(o)
    /\ UNCHANGED <<page, formData, dialogSkills, isLoading, studentSearch, server, quiet>>

----------------------------------------------------------------------------
\* The specifications.  Each one starts from the mounted page and runs a part
\* of the handlers; a behaviour of any of them is a behaviour of the page in
\* which the other handlers' buttons are not clicked and the other responses
\* have not arrived yet.

Pending == 1..Len(requests)

\* the backend and the continuations every specification needs to get the
\* batch table loaded
Network ==
    \/ \E i \in Pending : Serve(i)
    \/ \E i \in Pending : Refuse(i)
    \/ \E i \in Pending : \E o \in Outcomes(i) : fetchBatchesDone(i, o)
    \/ \E i \in Pending : \E o \in Outcomes(i) : fetchSkillsDataDone(i, o)

\* Spec: the page's protocol -- the row buttons, the delete confirmation, the
\* two dialogs opening and closing, the save and delete requests.
Init == Mounted /\ budget = Budget(MaxClicks, 0, MaxFaults)
Next ==
    \/ handleAddBatch
    \/ \E batch \in Rows : handleEditBatch(batch)
    \/ \E batch \in Rows : handleViewStudents(batch)
    \/ \E batch \in Rows : handleDeleteBatch(batch.id)
    \/ ConfirmAccepted
    \/ ConfirmDeclined
    \/ CloseStudentList
    \/ handleSubmit
    \/ CancelBatchDialog
    \/ Network
    \/ \E i \in Pending : \E o \in Outcomes(i) : handleViewStudentsDone(i, o)
    \/ \E i \in Pending : \E o \in Outcomes(i) : handleSaveBatchDone(i, o)
    \/ \E i \in Pending : \E o \in Outcomes(i) : handleDeleteBatchDone(i, o)
Spec == Init /\ [][Next]_vars

\* the user fills the required inputs of the form from the top down
Typed(k) ==
    /\ (k > 1 => formData.name \in NameInputs)
    /\ (k > 2 => formData.startDate \in DateInputs)
    /\ (k > 3 => formData.endDate \in DateInputs)
    /\ (k > 4 => formData.startTime \in TimeInputs)
Fill ==
    \/ \E text \in NameInputs : SetName(text)
    \/ \E d \in DateInputs : Typed(2) /\ SetStartDate(d)
    \/ \E d \in DateInputs : Typed(3) /\ SetEndDate(d)
    \/ \E t \in TimeInputs : Typed(4) /\ SetStartTime(t)
    \/ \E t \in TimeInputs : Typed(5) /\ SetEndTime(t)

\* SpecMutate: the three mutations of the batch collection -- create, update
\* and delete -- each answered, refused or lost.
InitMutate == Mounted /\ budget = Budget(MaxMutateClicks, Unlimited, MaxFaults)
NextMutate ==
    \/ handleAddBatch
    \/ \E batch \in Rows : handleEditBatch(batch)
    \/ \E batch \in Rows : handleDeleteBatch(batch.id)
    \/ ConfirmAccepted
    \/ ConfirmDeclined
    \/ Fill
    \/ handleSubmit
    \/ CancelBatchDialog
    \/ Network
    \/ \E i \in Pending : \E o \in Outcomes(i) : handleSaveBatchDone(i, o)
    \/ \E i \in Pending : \E o \in Outcomes(i) : handleDeleteBatchDone(i, o)
SpecMutate == InitMutate /\ [][NextMutate]_vars

\* SpecCreate: creating a batch, every request answered by the backend.
InitCreate == Mounted /\ budget = Budget(MaxCreateClicks, Unlimited, 0)
NextCreate ==
    \/ handleAddBatch
    \/ \E batch \in Rows : handleEditBatch(batch)
    \/ Fill
    \/ handleSubmit
    \/ CancelBatchDialog
    \/ \E i \in Pending : Serve(i)
    \/ \E i \in Pending : \E o \in Outcomes(i) : fetchBatchesDone(i, o)
    \/ \E i \in Pending : \E o \in Outcomes(i) : fetchSkillsDataDone(i, o)
    \/ \E i \in Pending : \E o \in Outcomes(i) : handleSaveBatchDone(i, o)
SpecCreate == InitCreate /\ [][NextCreate]_vars

\* SpecSkill: the faculty and skill selects of the form.
InitSkill == Mounted /\ budget = Budget(MaxSkillClicks, Unlimited, MaxFaults)
NextSkill ==
    \/ handleAddBatch
    \/ \E batch \in Rows : handleEditBatch(batch)
    \/ \E f \in Range(FacultyData) : SetFaculty(f.id)
    \/ \E sid \in Range(SkillData) : SetSkill(sid)
    \/ CancelBatchDialog
    \/ Network
    \/ \E i \in Pending : \E o \in Outcomes(i) : fetchFacultiesDone(i, o)
    \/ \E i \in Pending : \E o \in Outcomes(i) : fetchSkillsDone(i, o)
SpecSkill == InitSkill /\ [][NextSkill]_vars

\* SpecStudent: the inline student add of the form.
InitStudent == Mounted /\ budget = Budget(MaxStudentClicks, Unlimited, MaxFaults)
NextStudent ==
    \/ handleAddBatch
    \/ \E text \in StudentTextInputs : SetNewStudentName(text)
    \/ \E text \in StudentTextInputs : SetNewStudentAdmissionNumber(text)
    \/ \E text \in StudentTextInputs : SetNewStudentPhoneNumber(text)
    \/ handleAddStudent
    \/ CancelBatchDialog
    \/ \E i \in Pending : \E o \in Outcomes(i) : handleAddStudentDone(i, o)
    \/ \E i \in Pending : \E o \in Outcomes(i) : fetchAllStudentsDone(i, o)
SpecStudent == InitStudent /\ [][NextStudent]_vars

\* SpecForm: every input of the form, over open/close cycles of the dialog.
InitForm == Mounted /\ budget = Budget(MaxFormClicks, MaxFormEdits, 0)
NextForm ==
    \/ handleAddBatch
    \/ \E batch \in Rows : handleEditBatch(batch)
    \/ CancelBatchDialog
    \/ \E text \in NameInputs : SetName(text)
    \/ \E text \in MaxStudentsInputs : SetMaxStudents(text)
    \/ \E text \in DescriptionInputs : SetDescription(text)
    \/ \E d \in DateInputs : SetStartDate(d)
    \/ \E d \in DateInputs : SetEndDate(d)
    \/ \E t \in TimeInputs : SetStartTime(t)
    \/ \E t \in TimeInputs : SetEndTime(t)
    \/ \E st \in Range(BATCH_STATUSES) : SetStatus(st)
    \/ \E f \in Range(FacultyData) : SetFaculty(f.id)
    \/ \E sid \in Range(SkillData) : SetSkill(sid)
    \/ \E day \in DayInputs : handleDayToggle(day)
    \/ \E st \in Range(StudentData) : handleStudentToggle(st.id)
    \/ \E text \in SearchInputs : SetStudentSearch(text)
    \/ \E text \in StudentTextInputs : SetNewStudentName(text)
    \/ \E text \in StudentTextInputs : SetNewStudentAdmissionNumber(text)
    \/ \E text \in StudentTextInputs : SetNewStudentPhoneNumber(text)
    \/ \E i \in Pending : Serve(i)
    \/ \E i \in Pending : \E o \in Outcomes(i) : fetchBatchesDone(i, o)
    \/ \E i \in Pending : \E o \in Outcomes(i) : fetchSkillsDataDone(i, o)
    \/ \E i \in Pending : \E o \in Outcomes(i) : fetchFacultiesDone(i, o)
    \/ \E i \in Pending : \E o \in Outcomes(i) : fetchAllStudentsDone(i, o)
SpecForm == InitForm /\ [][NextForm]_vars

\* SpecLoad: the fetches of the collections, and the requests whose failure
\* is only logged.
InitLoad == Mounted /\ budget = Budget(MaxLoadClicks, Unlimited, MaxFaults)
NextLoad ==
    \/ handleAddBatch
    \/ CancelBatchDialog
    \/ \E batch \in Rows : handleDeleteBatch(batch.id)
    \/ ConfirmAccepted
    \/ ConfirmDeclined
    \/ Network
    \/ \E i \in Pending : \E o \in Outcomes(i) : fetchFacultiesDone(i, o)
    \/ \E i \in Pending : \E o \in Outcomes(i) : fetchSkillsDone(i, o)
    \/ \E i \in Pending : \E o \in Outcomes(i) : fetchAllStudentsDone(i, o)
    \/ \E i \in Pending : \E o \in Outcomes(i) : handleDeleteBatchDone(i, o)
SpecLoad == InitLoad /\ [][NextLoad]_vars

\* SpecFilter: the search box over a loaded table.  The page has loaded the
\* batch list of the backend, whatever it is, and the user types search terms.
Alphabet == {"a", "A", "b"}
Terms == UNION {[1..k -> Alphabet] : k \in 0..MaxTerm}
FilterNames == {<<>>, <<"A", "b">>, <<"b", "a">>, <<"a", "B", "a">>}
FilterIds == <<"B1", "B2", "B3", "B4">>
BatchLists ==
    {[i \in 1..Len(names) |-> [BatchB2 EXCEPT !.id = FilterIds[i], !.name = names[i]]] :
        names \in UNION {[1..k -> FilterNames] : k \in 0..MaxList}}
InitFilter ==
    \E list \in BatchLists :
        /\ batches = Arr(list)
        /\ faculties = Arr(FacultyData)
        /\ skills = SkillData
        /\ searchTerm = <<>>
        /\ isBatchDialogOpen = FALSE
        /\ isStudentListOpen = FALSE
        /\ selectedBatch = undefined
        /\ studentsOfSelectedBatch = Arr(<<>>)
        /\ allStudents = StudentData
        /\ formData = DefaultFormData
        /\ dialogSkills = <<>>
        /\ isLoading = FALSE
        /\ newStudentName = <<>>
        /\ newStudentAdmissionNumber = <<>>
        /\ newStudentPhoneNumber = <<>>
        /\ studentSearch = <<>>
        /\ server = list
        /\ requests = <<>>
        /\ confirming = NotConfirming
        /\ toasts = [save |-> 0, students |-> 0]
        /\ openedBy = NotOpen
        /\ rawBaseUrl = undefined
        /\ API_BASE_URL = getApiBaseUrl(rawBaseUrl)
        /\ budget = Budget(Unlimited, 0, 0)
NextFilter == \E text \in Terms : SetSearchTerm(text)
SpecFilter == InitFilter /\ [][NextFilter]_vars

\* SpecUrl: the module client/lib/api.ts being loaded, under any configured
\* value: unset, or a string put together from the pieces the resolver looks
\* for and their near misses.
UrlPieces ==
    {HTTP, HTTPS, LOCALHOST, LanPattern,
     <<"h", "t", "t", "p", ":", "/">>,
     <<"L", "o", "c", "a", "l", "h", "o", "s", "t">>,
     <<"1", "9", "2", "x", "1", "6", "8", ".">>,
     <<"a">>, <<"1", ".", "5">>, <<":", "3", "0", "0", "1">>}
RECURSIVE Concat(_)
Concat(parts) == IF parts = <<>> THEN <<>> ELSE Head(parts) \o Concat(Tail(parts))
ConfigValues ==
    {undefined} \cup
    {Str(Concat(parts)) : parts \in UNION {[1..k -> UrlPieces] : k \in 0..MaxParts}}
NotLoaded == [loaded |-> FALSE]
InitUrl ==
    /\ InitialState
    /\ rawBaseUrl \in ConfigValues
    /\ API_BASE_URL = NotLoaded
    /\ requests = <<>>
    /\ budget = Budget(0, 0, 0)
\* export const API_BASE_URL = getApiBaseUrl() (api.ts:26)
LoadModule ==
    /\ API_BASE_URL = NotLoaded
    /\ API_BASE_URL' = getApiBaseUrl(rawBaseUrl)
    /\ UNCHANGED <<page, dialog, server, requests, confirming, toasts, openedBy,
                   rawBaseUrl, budget>>
NextUrl == LoadModule
SpecUrl == InitUrl /\ [][NextUrl]_vars

----------------------------------------------------------------------------
\* What a step did to the requests in flight.

\* a request as it went out, whatever the backend has done with it since
Wire(r) == [method |-> r.method, path |-> r.path, body |-> r.body]
WireOf(reqs) == [k \in 1..Len(reqs) |-> Wire(reqs[k])]
\* the step handled no response: what was in flight still is
NoneHandled ==
    /\ Len(requests') >= Len(requests)
    /\ WireOf(SubSeq(requests', 1, Len(requests))) = WireOf(requests)
\* the step handled the response to request i
HandledAt(i) ==
    /\ ~NoneHandled
    /\ Len(requests') >= Len(requests) - 1
    /\ SubSeq(requests', 1, Len(requests) - 1) = RemoveAt(requests, i)
\* the response to request i, handled in this step, was a failure: fetch()
\* rejected or the status was not a success
FailedAt(i) ==
    \/ budget'.faults # budget.faults
    \/ requests[i].stage = "answered" /\ ~requests[i].resp.ok
\* the requests the step issued
Issued ==
    IF NoneHandled THEN SubSeq(requests', Len(requests) + 1, Len(requests'))
    ELSE SubSeq(requests', Len(requests), Len(requests'))
Count(reqs, P(_)) == Len(SelectSeq(reqs, P))

BatchesPath == <<"api", "batches">>
IsGetBatches(r) == r.method = "GET" /\ r.path = BatchesPath
IsGetStudents(r) == r.method = "GET" /\ r.path = <<"api", "students">>
IsWrite(r) == r.method # "GET"
IsSave(r) == r.method \in {"POST", "PUT"} /\ r.path[2] = "batches"
IsDelete(r) == r.method = "DELETE"
IsMutation(r) == IsSave(r) \/ IsDelete(r)
IsStudentPost(r) == r.method = "POST" /\ r.path = <<"api", "students">>
\* the user leaves the batch dialog by one of its own buttons
LeavesDialog == isBatchDialogOpen /\ ~isBatchDialogOpen' /\ NoneHandled

----------------------------------------------------------------------------
\* C1: when the save request of a submitted batch dialog fails (transport
\* failure or non-success status), an error notification is raised and the
\* batch dialog is still open afterwards.
\* The code closes the dialog in handleSubmit, before the response: the step
\* that handles a failed save raises the toast with the dialog closed.
C1_FailedSaveLeavesDialogOpen ==
    [][\A i \in Pending :
          (HandledAt(i) /\ IsSave(requests[i]) /\ FailedAt(i)) =>
              /\ toasts'.save = toasts.save + 1
              /\ isBatchDialogOpen']_vars

----------------------------------------------------------------------------
\* C2: a batch dialog opened through Add Batch issues, on submit, exactly one
\* POST to /api/batches (never a PUT) whose body is the form's values at that
\* moment; when the response to a POST is a success, the step that handles it
\* leaves no dialog open and no batch selected, and issues one GET /api/batches.
C2_AddSubmitsOnePost ==
    [][/\ openedBy = ByAdd =>
            /\ Count(Issued, IsWrite) <= 1
            /\ \A k \in 1..Len(Issued) :
                  IsWrite(Issued[k]) =>
                      /\ Issued[k].method = "POST"
                      /\ Issued[k].path = BatchesPath
                      /\ Issued[k].body = formData
            /\ (LeavesDialog /\ requests' # requests) =>
                  Len(Issued) = 1 /\ Issued[1].method = "POST"
       /\ \A i \in Pending :
            (HandledAt(i) /\ requests[i].method = "POST"
                /\ IsSave(requests[i]) /\ ~FailedAt(i)) =>
                /\ ~isBatchDialogOpen' /\ ~StudentListShown'
                /\ selectedBatch' = undefined
                /\ Count(Issued, IsGetBatches) = 1]_vars

\* a created batch is stored, its POST handled, the dialog closed and the
\* re-fetch in flight
C2_Witness ==
    /\ \E k \in 1..Len(server) : server[k].id = "B3" /\ server[k].name \in NameInputs
    /\ Count(requests, IsSave) = 0
    /\ Count(requests, IsGetBatches) = 1
    /\ ~isBatchDialogOpen /\ selectedBatch = undefined

----------------------------------------------------------------------------
\* C3: a batch dialog opened through Edit on batch B issues, on submit, exactly
\* one PUT to /api/batches/{B.id} -- never a POST, never a PUT to another id --
\* whatever clicks and responses came before.
C3_EditSubmitsOnePutToItsBatch ==
    [][openedBy.via = "edit" =>
          /\ Count(Issued, IsWrite) <= 1
          /\ \A k \in 1..Len(Issued) :
                IsWrite(Issued[k]) =>
                    /\ Issued[k].method = "PUT"
                    /\ Issued[k].path = <<"api", "batches", openedBy.batch.id>>
          /\ (LeavesDialog /\ requests' # requests) =>
                Len(Issued) = 1 /\ Issued[1].method = "PUT"]_vars

\* the second click of a run was Edit on B2, and its submit has put a PUT to
\* B2 in flight
C3_Witness ==
    /\ budget.clicks = MaxClicks - 2
    /\ ~isBatchDialogOpen
    /\ \E k \in Pending :
          requests[k].method = "PUT" /\ requests[k].path = <<"api", "batches", "B2">>

----------------------------------------------------------------------------
\* C4: the step that handles a successful response to a batch mutation
\* (create, update, delete) issues exactly one GET /api/batches; the step that
\* handles a failed one (transport failure or non-success status) issues no
\* GET /api/batches and leaves the batches collection as it was.
C4_RefetchAfterEverySuccessfulMutation ==
    [][\A i \in Pending :
          (HandledAt(i) /\ IsMutation(requests[i])) =>
              IF FailedAt(i)
              THEN Count(Issued, IsGetBatches) = 0 /\ batches' = batches
              ELSE Count(Issued, IsGetBatches) = 1]_vars

\* a delete was served and its response handled: the re-fetch is in flight
C4_Witness ==
    /\ Len(server) = Len(ServerInit) - 1
    /\ Count(requests, IsMutation) = 0
    /\ Count(requests, IsGetBatches) = 1
    /\ budget.faults = MaxFaults

----------------------------------------------------------------------------
\* C5: a DELETE for batch id X is issued only by the accepted confirmation
\* that the click on X's delete button raised, and it is exactly one DELETE to
\* /api/batches/{X}; the click itself issues nothing; an answer to the
\* confirmation that issues no DELETE issues nothing and changes no state.
C5_DeleteOnlyAfterAcceptedConfirm ==
    [][/\ Count(Issued, IsDelete) > 0 =>
            /\ confirming # NotConfirming /\ confirming' = NotConfirming
            /\ Len(Issued) = 1
            /\ Issued[1].path = <<"api", "batches", confirming>>
       /\ (confirming = NotConfirming /\ confirming' # NotConfirming) =>
            /\ confirming' \in {b.id : b \in Rows}
            /\ requests' = requests
       /\ (confirming # NotConfirming /\ confirming' = NotConfirming
             /\ Count(Issued, IsDelete) = 0) =>
            UNCHANGED <<page, dialog, server, requests, toasts>>
       /\ confirming # NotConfirming => confirming' \in {confirming, NotConfirming}]_vars

\* two delete clicks, one declined and one accepted: one DELETE is in flight
\* and nothing else has happened
C5_Witness ==
    /\ budget.clicks = MaxClicks - 2
    /\ confirming = NotConfirming
    /\ Count(requests, IsDelete) = 1
    /\ Len(requests) = 4
    /\ server = ServerInit /\ budget.faults = MaxFaults

----------------------------------------------------------------------------
\* C6: a failed fetch of the batches, faculty or skills collection, and a
\* failed delete-batch or add-student request, raises no notification and
\* leaves the collections exactly as they were.
\* fetchBatches and fetchFaculties do not look at the status: the body of a
\* non-success response replaces the collection.
C6_FailedFetchChangesNothing ==
    [][\A i \in Pending :
          (/\ HandledAt(i) /\ FailedAt(i)
           /\ \/ requests[i].method = "GET" /\ Len(requests[i].path) = 2
                   /\ requests[i].path[2] \in {"batches", "faculty", "skills"}
              \/ IsDelete(requests[i])
              \/ IsStudentPost(requests[i])) =>
              /\ toasts' = toasts
              /\ UNCHANGED <<batches, faculties, skills, dialogSkills, allStudents>>]_vars

----------------------------------------------------------------------------
\* C7: whenever the batch dialog goes from closed to open, the form is the
\* batch passed in (edit) or the empty defaults (create), and the student
\* search box and the three new-student inputs are empty.
\* The search box and the new-student inputs are state of their own that no
\* effect resets, and the dialog is never unmounted.
C7_OpenResetsEveryInput ==
    [][(~isBatchDialogOpen /\ isBatchDialogOpen') =>
          /\ formData' = IF openedBy' = ByAdd THEN DefaultFormData
                         ELSE FormFromBatch(openedBy'.batch)
          /\ studentSearch' = <<>>
          /\ newStudentName' = <<>>
          /\ newStudentAdmissionNumber' = <<>>
          /\ newStudentPhoneNumber' = <<>>]_vars

----------------------------------------------------------------------------
\* C8: every change of the faculty selected in the open form leaves the skill
\* empty, and as long as a faculty is selected in a form whose faculty select
\* is usable, the skill options are exactly that faculty's skills.
FacultySkills(fid) == (CHOOSE f \in Range(FacultyData) : f.id = fid).skills
\* the items of the skill select (part_000:350)
SkillOptions == availableSkills(faculties.v, formData.facultyId, dialogSkills)
C8_FacultyChangeClearsSkill ==
    [][/\ (isBatchDialogOpen /\ isBatchDialogOpen'
             /\ formData'.facultyId # formData.facultyId) =>
            /\ formData'.skillId = ""
            /\ SkillOptions' = FacultySkills(formData'.facultyId)
       /\ (isBatchDialogOpen' /\ IsArray(faculties') /\ faculties'.v # <<>>
             /\ formData'.facultyId # "") =>
            SkillOptions' = FacultySkills(formData'.facultyId)]_vars

\* B1 (faculty F1, skill S1) is being edited, the global skill list has
\* arrived, and the faculty was changed to F2
C8_Witness ==
    /\ isBatchDialogOpen /\ selectedBatch = BatchB1
    /\ dialogSkills = SkillData
    /\ formData.facultyId = "F2" /\ formData.skillId = ""

----------------------------------------------------------------------------
\* C9: the filtered batch list is exactly the batches whose lower-cased name
\* contains the lower-cased term as a substring, in the original order; it is
\* a sub-list of the full list, and the full list for the empty term.
Contains(s, t) == \E a \in 1..(Len(s) + 1), z \in 0..Len(s) : SubSeq(s, a, z) = t
Matching(list, term) ==
    {k \in 1..Len(list) : Contains(toLowerCase(list[k].name), toLowerCase(term))}
\* the n-th position of a set of positions, counted from the lowest
Nth(positions, n) ==
    CHOOSE k \in positions : Cardinality({j \in positions : j < k}) = n - 1
C9_FilterIsCaseInsensitiveSubstring ==
    Rendered =>
        LET list == batches.v
            shown == filteredBatches(list, searchTerm)
            hits == Matching(list, searchTerm)
        IN  /\ Len(shown) = Cardinality(hits)
            /\ \A n \in 1..Len(shown) : shown[n] = list[Nth(hits, n)]
            /\ (searchTerm = <<>> => shown = list)

\* a term typed with a capital selects some of the rows, not all
C9_Witness ==
    /\ searchTerm # toLowerCase(searchTerm)
    /\ Len(filteredBatches(batches.v, searchTerm)) = 1
    /\ Len(batches.v) = 2
    /\ filteredBatches(batches.v, searchTerm) = <<batches.v[2]>>

----------------------------------------------------------------------------
\* C10: the student Add button issues a POST to /api/students only when the
\* name and the admission number are non-empty after trimming, and then
\* exactly one, carrying the three inputs; otherwise it issues nothing and
\* leaves the three inputs and the student collection alone.  The step that
\* handles a successful POST issues the re-fetch of the students and clears
\* the three inputs; the step that handles a failed one leaves them.
NonBlank(text) == \E k \in 1..Len(text) : text[k] # " "
\* with the batch dialog open, the only button that counts as a click is Add
AddStudentClick == isBatchDialogOpen /\ budget'.clicks # budget.clicks
C10_StudentAddGuardedAndClearing ==
    [][/\ Count(Issued, IsStudentPost) > 0 =>
            NonBlank(newStudentName) /\ NonBlank(newStudentAdmissionNumber)
       /\ AddStudentClick =>
            IF NonBlank(newStudentName) /\ NonBlank(newStudentAdmissionNumber)
            THEN /\ Len(Issued) = 1 /\ IsStudentPost(Issued[1])
                 /\ Issued[1].body = [name |-> newStudentName,
                                      admission_number |-> newStudentAdmissionNumber,
                                      phone_number |-> newStudentPhoneNumber]
            ELSE /\ requests' = requests
                 /\ UNCHANGED <<newStudent, allStudents>>
       /\ \A i \in Pending :
            (HandledAt(i) /\ IsStudentPost(requests[i])) =>
                IF FailedAt(i)
                THEN UNCHANGED newStudent /\ Issued = <<>>
                ELSE /\ Count(Issued, IsGetStudents) = 1
                     /\ newStudentName' = <<>>
                     /\ newStudentAdmissionNumber' = <<>>
                     /\ newStudentPhoneNumber' = <<>>]_vars

\* a student was added: the inputs are cleared and the re-fetch is in flight
\* next to the one from the mount
C10_Witness ==
    /\ isBatchDialogOpen
    /\ Count(requests, IsGetStudents) = 2
    /\ Count(requests, IsStudentPost) = 0
    /\ newStudentName = <<>> /\ newStudentAdmissionNumber = <<>>
    /\ newStudentPhoneNumber = <<>>

----------------------------------------------------------------------------
\* C11: for every configured value v the resolver returns, by the first rule
\* that applies: "http://localhost:3001" when v is unset or empty; v itself
\* when v begins with "http://" or "https://"; "http://" v "/api" when v
\* contains "localhost" or begins with "192.168."; "https://" v "/api"
\* otherwise.
BeginsWith(v, prefix) == \E n \in 0..Len(v) : SubSeq(v, 1, n) = prefix
C11_Rule(v) ==
    IF v = undefined THEN 1
    ELSE IF v.str = <<>> THEN 1
    ELSE IF \/ BeginsWith(v.str, <<"h", "t", "t", "p", ":", "/", "/">>)
            \/ BeginsWith(v.str, <<"h", "t", "t", "p", "s", ":", "/", "/">>)
         THEN 2
    ELSE IF \/ Contains(v.str, <<"l", "o", "c", "a", "l", "h", "o", "s", "t">>)
            \/ BeginsWith(v.str, <<"1", "9", "2", ".", "1", "6", "8", ".">>)
         THEN 3
    ELSE 4
C11_ResolverFollowsFirstRule ==
    API_BASE_URL # NotLoaded =>
        LET v == rawBaseUrl
            api == <<"/", "a", "p", "i">>
        IN  CASE C11_Rule(v) = 1 ->
                   API_BASE_URL.str = <<"h", "t", "t", "p", ":", "/", "/",
                                        "l", "o", "c", "a", "l", "h", "o", "s", "t",
                                        ":", "3", "0", "0", "1">>
              [] C11_Rule(v) = 2 -> API_BASE_URL.str = v.str
              [] C11_Rule(v) = 3 ->
                   API_BASE_URL.str = <<"h", "t", "t", "p", ":", "/", "/">> \o v.str \o api
              [] OTHER ->
                   API_BASE_URL.str =
                       <<"h", "t", "t", "p", "s", ":", "/", "/">> \o v.str \o api

\* a value with a scheme that also contains "localhost" was resolved to itself
C11_Witness ==
    /\ rawBaseUrl = Str(HTTPS \o LOCALHOST)
    /\ API_BASE_URL = rawBaseUrl

----------------------------------------------------------------------------
\* C12: whenever the student-list dialog is shown, the roster it lists is the
\* response to the roster request made for the selected batch, the one its
\* title names; and it is never shown together with the batch dialog.
\* Stated on the steps that put a roster on show: the step that starts
\* showing the dialog, or changes the roster or the selected batch of a shown
\* dialog, handles the response to the roster request of the batch then
\* selected, and the batch dialog is closed.
\* handleViewStudents does not look at which batch is selected when its
\* response arrives, nor at whether the batch dialog has opened meanwhile.
IsRosterGet(r) == r.method = "GET" /\ Len(r.path) = 4 /\ r.path[4] = "students"
C12_ShownRosterIsOfSelectedBatch ==
    [][/\ (/\ StudentListShown'
           /\ \/ ~StudentListShown
              \/ studentsOfSelectedBatch' # studentsOfSelectedBatch
              \/ selectedBatch' # selectedBatch) =>
            \E i \in Pending :
                /\ HandledAt(i) /\ IsRosterGet(requests[i])
                /\ requests[i].path[3] = selectedBatch'.id
       /\ StudentListShown' => ~isBatchDialogOpen']_vars

----------------------------------------------------------------------------
\* C13: with this client as the only writer, whenever no request is in flight
\* and every batch-list fetch succeeded, the client's batches collection
\* equals the backend's current batch collection.
\* Stated for the runs in which no request at all was refused or lost (the
\* fault budget is untouched), so every fetch of the batch list succeeded.
\* fetchBatches stores whatever response it handles last: two re-fetches that
\* overlap and are handled in the other order leave the older list in place.
C13_IdleClientMirrorsBackend ==
    (requests = <<>> /\ budget.faults = MaxFaults) => batches = Arr(server)

----------------------------------------------------------------------------
\* C14: once the batch dialog is open (Add or Edit) it stays open with the
\* same selected batch until the user cancels or submits that dialog: a step
\* that closes an open batch dialog, or changes the batch selected under it,
\* is the user leaving the dialog by one of its own buttons, never the
\* handling of a response.
\* handleSubmit closes the dialog before its save is answered, so a save
\* answered while the dialog is open belongs to an earlier opening; on
\* success handleSaveBatch closes the dialog and clears the selection
\* whatever is open by then.
C14_OpenDialogOutlivesEarlierSaves ==
    [][(/\ isBatchDialogOpen
        /\ \/ ~isBatchDialogOpen'
           \/ selectedBatch' # selectedBatch) => LeavesDialog]_vars

====
